---- MODULE Spec2Model ----
(***************************************************************************)
(* Model of src/app.py: a Flask application with six read-only routes over *)
(* the station and measurement tables of a pre-populated SQLite store.     *)
(*                                                                         *)
(* Text values (dates, path parameters, bound parameters) are sequences of *)
(* character codes, compared the way SQLite's BINARY collation compares    *)
(* TEXT.  A temperature is counted in eighths of a degree, so that every   *)
(* value, sum and rounding tie of the model is an exact binary fraction,   *)
(* as it is in the store's FLOAT column.  A value that may be None / NULL  *)
(* is a sequence of length at most one: NULL is <<>>, a value v is <<v>>.  *)
(***************************************************************************)
EXTENDS Integers, Sequences, FiniteSets, Bags, TLC

VARIABLES station, measurement, sessions, req

vars == <<station, measurement, sessions, req>>

(***************************************************************************)
(* Bounds of the model.                                                    *)
(***************************************************************************)
\* rows of the measurement table in the stores of Spec
MaxRows == 2
\* requests the host dispatches in parallel in SpecConc
MaxReq == 2

(***************************************************************************)
(* Text and dates.                                                         *)
(***************************************************************************)
NULL == <<>>

Some(v) == <<v>>

\* the character of one decimal digit
Digit(n) == 48 + n

Hyphen == 45

Space == 32

Colon == 58

Period == 46

\* zero-padded decimal text of n, w characters wide (%04d, %02d, %06d)
Pad(n, w) == [i \in 1..w |-> Digit((n \div (10 ^ (w - i))) % 10)]

\* the number written by the digits s[a..b]
RECURSIVE Num(_, _, _)
Num(s, a, b) == IF b < a THEN 0 ELSE 10 * Num(s, a, b - 1) + (s[b] - 48)

\* SQLite's comparison of two TEXT values under the BINARY collation:
\* bytewise, and a proper prefix sorts first
RECURSIVE TextLess(_, _)
TextLess(a, b) ==
    IF b = <<>> THEN FALSE
    ELSE IF a = <<>> THEN TRUE
    ELSE IF Head(a) # Head(b) THEN Head(a) < Head(b)
    ELSE TextLess(Tail(a), Tail(b))

TextLeq(a, b) == a = b \/ TextLess(a, b)

TextGeq(a, b) == TextLeq(b, a)

\* datetime: the proleptic Gregorian calendar
IsLeap(y) == y % 4 = 0 /\ (y % 100 # 0 \/ y % 400 = 0)

DaysInMonth(y, m) ==
    IF m = 2 THEN (IF IsLeap(y) THEN 29 ELSE 28)
    ELSE IF m \in {4, 6, 9, 11} THEN 30 ELSE 31

RECURSIVE DaysBeforeMonth(_, _)
DaysBeforeMonth(y, m) ==
    IF m = 1 THEN 0 ELSE DaysBeforeMonth(y, m - 1) + DaysInMonth(y, m - 1)

DaysBeforeYear(y) ==
    LET p == y - 1 IN p * 365 + (p \div 4) - (p \div 100) + (p \div 400)

\* date.toordinal(): 0001-01-01 is day 1
ToOrdinal(d) == DaysBeforeYear(d.year) + DaysBeforeMonth(d.year, d.month) + d.day

\* date.fromordinal(), as datetime._ord2ymd computes it
FromOrdinal(ordinal) ==
    LET n0   == ordinal - 1
        n400 == n0 \div 146097
        r400 == n0 % 146097
        n100 == r400 \div 36524
        r100 == r400 % 36524
        n4   == r100 \div 1461
        r4   == r100 % 1461
        n1   == r4 \div 365
        n    == r4 % 365
        year == n400 * 400 + 1 + n100 * 100 + n4 * 4 + n1
        m0   == (n + 50) \div 32
        p0   == DaysBeforeMonth(year, m0)
        month == IF p0 > n THEN m0 - 1 ELSE m0
        preceding == DaysBeforeMonth(year, month)
    IN  IF n1 = 4 \/ n100 = 4
        THEN [year |-> year - 1, month |-> 12, day |-> 31]
        ELSE [year |-> year, month |-> month, day |-> n - preceding + 1]

\* dt.datetime.strptime(s, "%Y-%m-%d") of a well-formed date text (midnight)
strptime(s) == [year |-> Num(s, 1, 4), month |-> Num(s, 6, 7), day |-> Num(s, 9, 10)]

\* d - dt.timedelta(days=n)
MinusDays(d, n) == FromOrdinal(ToOrdinal(d) - n)

\* the text of a date, "%Y-%m-%d", as the store holds it
DateText(d) ==
    Pad(d.year, 4) \o <<Hyphen>> \o Pad(d.month, 2) \o <<Hyphen>> \o Pad(d.day, 2)

\* The text bound for a datetime parameter compared with the TEXT column:
\* the midnight datetime in the storage format "YYYY-MM-DD HH:MM:SS.ffffff"
BindDateTime(d) ==
    DateText(d) \o <<Space>> \o Pad(0, 2) \o <<Colon>> \o Pad(0, 2) \o <<Colon>>
                \o Pad(0, 2) \o <<Period>> \o Pad(0, 6)

\* the days of the 12-month window
YearDays == 365

\* last_year_date: the parameter of the filter Measurement.date >= last_year_date
last_year_date(recent) == BindDateTime(MinusDays(strptime(recent), YearDays))

(***************************************************************************)
(* The store: the station table (its codes) and the measurement table, a   *)
(* bag of rows, since no query of the program orders the rows it reads.    *)
(***************************************************************************)
Date(y, m, d) == DateText([year |-> y, month |-> m, day |-> d])

Stations == {"USC1", "USC2"}

\* the latest day, the day 365 days before it, and the day before that
Dates == {Date(2016, 8, 22), Date(2016, 8, 23), Date(2017, 8, 23)}

\* prcp is nullable; an amount is counted in hundredths of an inch
Prcps == {NULL, Some(8)}

\* tobs in eighths of a degree: 70.0, 70.125 and 70.25
Temps == {560, 561, 562}

MeasurementRows == [station : Stations, date : Dates, prcp : Prcps, tobs : Temps]

\* the path parameters <start> and <end>: any text; here two dates and, for
\* <start>, the prefix "2017"
Starts == {Date(2016, 8, 23), Date(2017, 8, 23), Pad(2017, 4)}

Ends == {Date(2016, 8, 23), Date(2017, 8, 23)}

BagOf(s) == [x \in {s[i] : i \in DOMAIN s} |-> Cardinality({i \in DOMAIN s : s[i] = x})]

\* every table of at most n rows
Tables(n) == {BagOf(s) : s \in UNION {[1..k -> MeasurementRows] : k \in 0..n}}

\* .filter(...): the rows of the table that are in S, each as often as in the table
Filter(table, S) == [x \in DOMAIN table \cap S |-> table[x]]

\* .all() without ORDER BY: the rows in any order the store chooses
Arrangements(B) ==
    LET S == DOMAIN B
        n == BagCardinality(B)
    IN  {s \in [1..n -> S] : \A x \in S : Cardinality({i \in 1..n : s[i] = x}) = B[x]}

\* the sum of tobs over the rows S of the bag B
RECURSIVE TobsSum(_, _)
TobsSum(B, S) ==
    IF S = {} THEN 0
    ELSE LET x == CHOOSE y \in S : TRUE IN x.tobs * B[x] + TobsSum(B, S \ {x})

\* func.max(Measurement.date) ... .scalar(): NULL over no row
MaxDate(B) ==
    IF DOMAIN B = {} THEN NULL
    ELSE Some((CHOOSE x \in DOMAIN B : \A y \in DOMAIN B : TextLeq(y.date, x.date)).date)

\* func.min(Measurement.tobs), func.max(Measurement.tobs)
MinTobs(B) ==
    IF DOMAIN B = {} THEN NULL
    ELSE Some((CHOOSE x \in DOMAIN B : \A y \in DOMAIN B : x.tobs <= y.tobs).tobs)

MaxTobs(B) ==
    IF DOMAIN B = {} THEN NULL
    ELSE Some((CHOOSE x \in DOMAIN B : \A y \in DOMAIN B : y.tobs <= x.tobs).tobs)

\* func.avg(Measurement.tobs): the sum and the count of the mean, NULL over no row
AvgTobs(B) ==
    IF DOMAIN B = {} THEN NULL
    ELSE Some([sum |-> TobsSum(B, DOMAIN B), count |-> BagCardinality(B)])

\* round2 as int(avg * 100) / 100 would compute it: the hundredths cut off
round2_truncated(avg) == (25 * avg.sum) \div (2 * avg.count)

\* round(avg, 2): the mean sum / (8 * count) degrees in hundredths of a degree,
\* to the nearest hundredth, an exact tie to the even one
round2(avg) ==
    LET num == 25 * avg.sum
        den == 2 * avg.count
        q   == num \div den
        rem == num % den
    IN  IF 2 * rem < den THEN q
        ELSE IF 2 * rem > den THEN q + 1
        ELSE IF q % 2 = 0 THEN q ELSE q + 1

\* the one row of min, avg, max over the rows B
Aggregates(B) == <<[min |-> MinTobs(B), avg |-> AvgTobs(B), max |-> MaxTobs(B)]>>

\* DictOf with dict.setdefault: the first row of a date keeps its value
RECURSIVE DictOf_firstWins(_)
DictOf_firstWins(rows) ==
    IF Len(rows) = 0 THEN <<>>
    ELSE LET last == rows[Len(rows)]
         IN  DictOf_firstWins(SubSeq(rows, 1, Len(rows) - 1)) @@ (last.date :> last.prcp)

\* {date: prcp for date, prcp in rows}: a later row overwrites an earlier one
RECURSIVE DictOf(_)
DictOf(rows) ==
    IF Len(rows) = 0 THEN <<>>
    ELSE LET last == rows[Len(rows)]
         IN  (last.date :> last.prcp) @@ DictOf(SubSeq(rows, 1, Len(rows) - 1))

\* GROUP BY station with func.count
StationCounts ==
    LET of(s) == Filter(measurement, {x \in MeasurementRows : x.station = s})
    IN  {<<s, BagCardinality(of(s))>> : s \in {x.station : x \in DOMAIN measurement}}

\* ORDER BY count DESC: every order of the groups with no count rising;
\* the order among equal counts is the store's choice
OrderedStations ==
    LET G == StationCounts
        n == Cardinality(G)
    IN  {s \in [1..n -> G] :
            /\ \A i, j \in 1..n : i # j => s[i] # s[j]
            /\ \A i, j \in 1..n : i < j => s[i][2] >= s[j][2]}

(***************************************************************************)
(* Requests.  req[r] is the request the host's worker r handles: its       *)
(* route and path parameters, its position in the handler and the          *)
(* handler's locals.                                                       *)
(***************************************************************************)
Idle ==
    [route |-> "", start |-> NULL, end |-> NULL, pc |-> "idle", session |-> 0,
     most_active_station_id |-> "", rows |-> <<>>, resp |-> <<>>, error |-> ""]

\* NewSession with one module-level session, created once and used by all
SharedSession == IF Len(sessions) = 0 THEN 1 ELSE Len(sessions)

\* the identity of the object Session(engine) creates: a new one each time
NewSession == Len(sessions) + 1

\* session = Session(engine), the first statement of a handler
Open(r, route, start, end) ==
    /\ req[r].pc = "idle"
    /\ LET s == NewSession
       IN  /\ sessions' = [i \in 1..(IF s > Len(sessions) THEN s ELSE Len(sessions)) |->
                              IF i = s THEN [owner |-> r, open |-> TRUE] ELSE sessions[i]]
           /\ req' = [req EXCEPT ![r] = [Idle EXCEPT !.route = route, !.start = start,
                                            !.end = end, !.pc = "opened", !.session = s]]
    /\ UNCHANGED <<station, measurement>>

\* session.close()
Close(r) == sessions' = [sessions EXCEPT ![req[r].session].open = FALSE]

\* an exception leaves the handler: Flask answers 500
Raise(r, exc) == req' = [req EXCEPT ![r].pc = "failed", ![r].error = exc]

At(r, route, pc) == req[r].route = route /\ req[r].pc = pc

(***************************************************************************)
(* Route "/": a static page, no session and no store access.               *)
(***************************************************************************)
homepage(r) ==
    /\ req[r].pc = "idle"
    /\ req' = [req EXCEPT ![r] = [Idle EXCEPT !.route = "homepage", !.pc = "done",
                                     !.resp = "Hawaii Climate Analysis"]]
    /\ UNCHANGED <<station, measurement, sessions>>

(***************************************************************************)
(* Route "/api/v1.0/precipitation".                                        *)
(***************************************************************************)
\* .filter(Measurement.date >= last_year_date)
InLastYear(x, recent) == TextGeq(x.date, last_year_date(recent))

precipitation_open(r) == Open(r, "precipitation", NULL, NULL)

\* recent_date, last_year_date and data_last_year
precipitation_query(r) ==
    /\ At(r, "precipitation", "opened")
    /\ LET recent_date == MaxDate(measurement)
       IN  \/ /\ recent_date = NULL
              /\ Raise(r, "TypeError")
           \/ /\ recent_date # NULL
              /\ \E s \in Arrangements(Filter(measurement,
                        {x \in DOMAIN measurement : InLastYear(x, recent_date[1])})) :
                   req' = [req EXCEPT ![r].pc = "queried",
                              ![r].rows = [i \in DOMAIN s |->
                                              [date |-> s[i].date, prcp |-> s[i].prcp]]]
    /\ UNCHANGED <<station, measurement, sessions>>

precipitation_return(r) ==
    /\ At(r, "precipitation", "queried")
    /\ Close(r)
    /\ req' = [req EXCEPT ![r].pc = "done", ![r].resp = DictOf(req[r].rows)]
    /\ UNCHANGED <<station, measurement>>

(***************************************************************************)
(* Route "/api/v1.0/stations".                                             *)
(***************************************************************************)
\* StationRows read from Measurement.station: one row per measurement
StationRows_fromMeasurement ==
    [s \in {x.station : x \in DOMAIN measurement} |->
        BagCardinality(Filter(measurement, {x \in MeasurementRows : x.station = s}))]

\* session.query(Station.station).all(): one row per station record
StationRows == [s \in station |-> 1]

all_stations_open(r) == Open(r, "stations", NULL, NULL)

all_stations_query(r) ==
    /\ At(r, "stations", "opened")
    /\ \E s \in Arrangements(StationRows) :
         req' = [req EXCEPT ![r].pc = "queried", ![r].rows = [i \in DOMAIN s |-> <<s[i]>>]]
    /\ UNCHANGED <<station, measurement, sessions>>

all_stations_return(r) ==
    /\ At(r, "stations", "queried")
    /\ Close(r)
    /\ req' = [req EXCEPT ![r].pc = "done",
                  ![r].resp = [i \in DOMAIN req[r].rows |-> req[r].rows[i][1]]]
    /\ UNCHANGED <<station, measurement>>

(***************************************************************************)
(* Route "/api/v1.0/tobs".                                                 *)
(***************************************************************************)
\* the rows of one station
OfStation(id) == Filter(measurement, {x \in MeasurementRows : x.station = id})

tobs_open(r) == Open(r, "tobs", NULL, NULL)

tobs_query(r) ==
    /\ At(r, "tobs", "opened")
    /\ \E most_active_stations \in OrderedStations :
         \/ /\ Len(most_active_stations) = 0
            /\ Raise(r, "IndexError")
         \/ /\ Len(most_active_stations) > 0
            /\ LET most_active_station_id == most_active_stations[1][1]
                   most_recent_date == MaxDate(OfStation(most_active_station_id))[1]
               IN  \E s \in Arrangements(Filter(OfStation(most_active_station_id),
                          {x \in DOMAIN measurement : InLastYear(x, most_recent_date)})) :
                     req' = [req EXCEPT ![r].pc = "queried",
                                ![r].most_active_station_id = most_active_station_id,
                                ![r].rows = [i \in DOMAIN s |->
                                                [date |-> s[i].date, tobs |-> s[i].tobs]]]
    /\ UNCHANGED <<station, measurement, sessions>>

tobs_return(r) ==
    /\ At(r, "tobs", "queried")
    /\ Close(r)
    /\ req' = [req EXCEPT ![r].pc = "done",
                  ![r].resp = [i \in DOMAIN req[r].rows |->
                                  [date |-> req[r].rows[i].date,
                                   temperature |-> req[r].rows[i].tobs]]]
    /\ UNCHANGED <<station, measurement>>

(***************************************************************************)
(* Route "/api/v1.0/start/<start>".                                        *)
(***************************************************************************)
\* .filter(Measurement.date >= start)
FromStart(x, start) == TextGeq(x.date, start)

start_date_open(r) == \E start \in Starts : Open(r, "start", start, NULL)

start_date_query(r) ==
    /\ At(r, "start", "opened")
    /\ req' = [req EXCEPT ![r].pc = "queried",
                  ![r].rows = Aggregates(Filter(measurement,
                                 {x \in DOMAIN measurement : FromStart(x, req[r].start)}))]
    /\ UNCHANGED <<station, measurement, sessions>>

\* the session is closed, then round(None, 2) raises when no row matched
start_date_return(r) ==
    /\ At(r, "start", "queried")
    /\ Close(r)
    /\ LET results == req[r].rows
       IN  \/ /\ results[1].avg = NULL
              /\ Raise(r, "TypeError")
           \/ /\ results[1].avg # NULL
              /\ req' = [req EXCEPT ![r].pc = "done",
                            ![r].resp = [min |-> results[1].min,
                                         avg |-> round2(results[1].avg[1]),
                                         max |-> results[1].max,
                                         start |-> req[r].start]]
    /\ UNCHANGED <<station, measurement>>

(***************************************************************************)
(* Route "/api/v1.0/end/<start>/<end>".                                    *)
(***************************************************************************)
\* Between with the end date left out: Measurement.date < end
Between_endExclusive(x, start, end) == TextGeq(x.date, start) /\ TextLess(x.date, end)

\* .filter(Measurement.date >= start).filter(Measurement.date <= end)
Between(x, start, end) == TextGeq(x.date, start) /\ TextLeq(x.date, end)

start_end_date_open(r) ==
    \E start \in Starts, end \in Ends : Open(r, "end", start, end)

start_end_date_query(r) ==
    /\ At(r, "end", "opened")
    /\ req' = [req EXCEPT ![r].pc = "queried",
                  ![r].rows = Aggregates(Filter(measurement,
                                 {x \in DOMAIN measurement :
                                     Between(x, req[r].start, req[r].end)}))]
    /\ UNCHANGED <<station, measurement, sessions>>

start_end_date_return(r) ==
    /\ At(r, "end", "queried")
    /\ Close(r)
    /\ LET results == req[r].rows
       IN  \/ /\ results[1].avg = NULL
              /\ Raise(r, "TypeError")
           \/ /\ results[1].avg # NULL
              /\ req' = [req EXCEPT ![r].pc = "done",
                            ![r].resp = [min |-> results[1].min,
                                         avg |-> round2(results[1].avg[1]),
                                         max |-> results[1].max,
                                         start |-> req[r].start,
                                         end |-> req[r].end]]
    /\ UNCHANGED <<station, measurement>>

(***************************************************************************)
(* Specifications.                                                         *)
(***************************************************************************)
\* a measurement's station code references an existing station
StationTables(table) ==
    {S \in SUBSET Stations : {x.station : x \in DOMAIN table} \subseteq S}

\* Spec: one request against any store of at most MaxRows measurements
Init ==
    /\ measurement \in Tables(MaxRows)
    /\ station \in StationTables(measurement)
    /\ sessions = <<>>
    /\ req = [r \in {1} |-> Idle]

\* SpecConc: MaxReq requests in parallel against an empty store, or against a
\* store of two stations with one measurement each on the same day
TiedTable ==
    BagOf(<<[station |-> "USC1", date |-> Date(2017, 8, 23), prcp |-> Some(8), tobs |-> 560],
            [station |-> "USC2", date |-> Date(2017, 8, 23), prcp |-> NULL, tobs |-> 562]>>)

InitConc ==
    /\ measurement \in {EmptyBag, TiedTable}
    /\ station = {x.station : x \in DOMAIN measurement}
    /\ sessions = <<>>
    /\ req = [r \in 1..MaxReq |-> Idle]

\* one step of the request of worker r
Step(r) ==
    \/ homepage(r)
    \/ precipitation_open(r) \/ precipitation_query(r) \/ precipitation_return(r)
    \/ all_stations_open(r) \/ all_stations_query(r) \/ all_stations_return(r)
    \/ tobs_open(r) \/ tobs_query(r) \/ tobs_return(r)
    \/ start_date_open(r) \/ start_date_query(r) \/ start_date_return(r)
    \/ start_end_date_open(r) \/ start_end_date_query(r) \/ start_end_date_return(r)

Next == \E r \in {1} : Step(r)

NextConc == \E r \in 1..MaxReq : Step(r)

Spec == Init /\ [][Next]_vars

SpecConc == InitConc /\ [][NextConc]_vars

(***************************************************************************)
(* Properties.                                                             *)
(***************************************************************************)
Ended(r) == req[r].pc \in {"done", "failed"}

\* the date 365 days before the date written by the text d, as a date text
CutoffDay(d) == DateText(MinusDays(strptime(d), YearDays))

\* the latest date among the rows S
Latest(S) == CHOOSE d \in {x.date : x \in S} : \A x \in S : TextLeq(x.date, d)

\* the number of rows of S in the measurement table
CountRows(S) == BagCardinality(Filter(measurement, S))

\* C1: whenever the store holds a measurement, the keys of the mapping the
\* precipitation route returns are exactly the dates of the measurements dated
\* on or after the day 365 days before the latest date of the store.
C1_PrecipitationKeys ==
    \A r \in DOMAIN req :
        (req[r].route = "precipitation" /\ Ended(r) /\ DOMAIN measurement # {}) =>
            /\ req[r].pc = "done"
            /\ DOMAIN req[r].resp =
                 {x.date : x \in {y \in DOMAIN measurement :
                     TextGeq(y.date, CutoffDay(Latest(DOMAIN measurement)))}}

\* C2: a start or start/end summary request whose filter no measurement
\* matches completes with min, avg and max null; it does not fail.
C2_EmptyRangeNulls ==
    \A r \in DOMAIN req :
        /\ (req[r].route = "start" /\ Ended(r)
              /\ \A x \in DOMAIN measurement : ~TextLeq(req[r].start, x.date)) =>
                 /\ req[r].pc = "done"
                 /\ req[r].resp.min = NULL /\ req[r].resp.avg = NULL
                 /\ req[r].resp.max = NULL
        /\ (req[r].route = "end" /\ Ended(r)
              /\ \A x \in DOMAIN measurement :
                    ~(TextLeq(req[r].start, x.date) /\ TextLeq(x.date, req[r].end))) =>
                 /\ req[r].pc = "done"
                 /\ req[r].resp.min = NULL /\ req[r].resp.avg = NULL
                 /\ req[r].resp.max = NULL

\* C3: a request that has ended, normally or with an error, has closed the
\* session it opened: no ended request leaves a session open.
C3_SessionsClosed ==
    \A r \in DOMAIN req :
        (Ended(r) /\ req[r].session # 0) => ~sessions[req[r].session].open

\* C4: whenever the store holds a measurement, the tobs route answers with,
\* for some station S of maximal measurement count, exactly one
\* {date, temperature} per measurement of S dated on or after the day 365 days
\* before the latest date of S.
C4_TobsWindow ==
    \A r \in DOMAIN req :
        (req[r].route = "tobs" /\ Ended(r) /\ DOMAIN measurement # {}) =>
            /\ req[r].pc = "done"
            /\ \E S \in {x.station : x \in DOMAIN measurement} :
                 LET of(s) == {x \in DOMAIN measurement : x.station = s}
                     window == {x \in of(S) : TextGeq(x.date, CutoffDay(Latest(of(S))))}
                     pairs == {[date |-> x.date, temperature |-> x.tobs] : x \in window}
                 IN  /\ \A T \in {x.station : x \in DOMAIN measurement} :
                            CountRows(of(T)) <= CountRows(of(S))
                     /\ BagOf(req[r].resp) =
                          [p \in pairs |-> CountRows({x \in window :
                                              x.date = p.date /\ x.tobs = p.temperature})]

\* the measurements a summary request selects: date >= start, and date <= end
\* on the start/end route
Selected(r) ==
    {x \in DOMAIN measurement :
        /\ TextLeq(req[r].start, x.date)
        /\ req[r].route = "end" => TextLeq(x.date, req[r].end)}

IsSummary(r) == req[r].route \in {"start", "end"} /\ Ended(r)

\* C5: a summary request that selects at least one measurement answers with
\* the least and the greatest temperature of exactly the selected
\* measurements, and echoes start (and end) unchanged.
C5_SummaryMinMax ==
    \A r \in DOMAIN req :
        (IsSummary(r) /\ Selected(r) # {}) =>
            /\ req[r].pc = "done"
            /\ \E x \in Selected(r) : req[r].resp.min = Some(x.tobs)
            /\ \E x \in Selected(r) : req[r].resp.max = Some(x.tobs)
            /\ \A x \in Selected(r) :
                 req[r].resp.min[1] <= x.tobs /\ x.tobs <= req[r].resp.max[1]
            /\ req[r].resp.start = req[r].start
            /\ req[r].route = "end" => req[r].resp.end = req[r].end

\* a start/end request has answered, both bounds fall on the date of a
\* selected measurement, and a measurement outside the bounds is left out
C5_Witness ==
    \E r \in DOMAIN req :
        /\ At(r, "end", "done")
        /\ \E x \in Selected(r) : x.date = req[r].start /\ x.date = req[r].end
        /\ \E y \in DOMAIN measurement : y \notin Selected(r) /\ y.tobs < req[r].resp.min[1]

\* avg (hundredths of a degree) is a hundredth nearest to the mean of the
\* selected temperatures (eighths of a degree): |avg/100 - sum/(8 n)| <= 1/200
NearestHundredth(r) ==
    LET sum == TobsSum(measurement, Selected(r))
        n   == CountRows(Selected(r))
        d   == 16 * n * req[r].resp.avg - 200 * sum
    IN  -(8 * n) <= d /\ d <= 8 * n

\* min <= avg <= max, in two-hundredths of a degree
AvgWithin(r) ==
    /\ 25 * req[r].resp.min[1] <= 2 * req[r].resp.avg
    /\ 2 * req[r].resp.avg <= 25 * req[r].resp.max[1]

\* a temperature in eighths of a degree that is a whole number of hundredths
TwoDecimals(t) == (25 * t) % 2 = 0

\* C6 as stated: in every summary answer over at least one measurement, avg is
\* the mean rounded to 2 decimal places and min <= avg <= max.
C6_AvgWithinMinMax ==
    \A r \in DOMAIN req :
        (IsSummary(r) /\ Selected(r) # {}) =>
            req[r].pc = "done" /\ NearestHundredth(r) /\ AvgWithin(r)

\* C6 as amended: avg is the mean rounded to 2 decimal places, and
\* min <= avg <= max whenever min and max have at most 2 decimal places.
C6_AvgRounded ==
    \A r \in DOMAIN req :
        (IsSummary(r) /\ Selected(r) # {}) =>
            /\ req[r].pc = "done"
            /\ NearestHundredth(r)
            /\ (TwoDecimals(req[r].resp.min[1]) /\ TwoDecimals(req[r].resp.max[1]))
                  => AvgWithin(r)

\* a summary has answered over temperatures of at most 2 decimal places whose
\* mean is no whole number of hundredths, so the rounding changed it
C6_Witness ==
    \E r \in DOMAIN req :
        /\ IsSummary(r) /\ req[r].pc = "done"
        /\ TwoDecimals(req[r].resp.min[1]) /\ TwoDecimals(req[r].resp.max[1])
        /\ (25 * TobsSum(measurement, Selected(r))) % (2 * CountRows(Selected(r))) # 0

\* C7: the stations route answers with as many entries as the store has
\* station codes, each entry the code of a station of the store.
C7_StationsLength ==
    \A r \in DOMAIN req :
        (req[r].route = "stations" /\ Ended(r)) =>
            /\ req[r].pc = "done"
            /\ Len(req[r].resp) = Cardinality(station)
            /\ \A i \in 1..Len(req[r].resp) : req[r].resp[i] \in station

\* the stations route has answered over two stations, one without measurements
C7_Witness ==
    \E r \in DOMAIN req :
        /\ At(r, "stations", "done")
        /\ Len(req[r].resp) = 2
        /\ \E s \in station : \A x \in DOMAIN measurement : x.station # s

\* C8: two answered calls of the same route with the same parameters against
\* the same store have identical responses, and two tobs calls select the same
\* station.
C8_Deterministic ==
    \A r1, r2 \in DOMAIN req :
        (/\ req[r1].pc = "done" /\ req[r2].pc = "done"
         /\ req[r1].route = req[r2].route
         /\ req[r1].start = req[r2].start /\ req[r1].end = req[r2].end) =>
            /\ req[r1].resp = req[r2].resp
            /\ req[r1].most_active_station_id = req[r2].most_active_station_id

\* C9: the value the precipitation route returns for a date is the prcp of the
\* last row of that date in the order the store returned the rows, null
\* included; the keys are the dates of the returned rows.
C9_LastRowWins ==
    \A r \in DOMAIN req :
        At(r, "precipitation", "done") =>
            LET rows == req[r].rows
                at(d) == {i \in 1..Len(rows) : rows[i].date = d}
            IN  /\ DOMAIN req[r].resp = {rows[i].date : i \in 1..Len(rows)}
                /\ \A d \in DOMAIN req[r].resp :
                     \E i \in at(d) : /\ \A j \in at(d) : j <= i
                                      /\ req[r].resp[d] = rows[i].prcp

\* the store returned a row with an amount and later a row of the same date
\* with no amount, and the answer has null for that date
C9_Witness ==
    \E r \in DOMAIN req :
        /\ At(r, "precipitation", "done")
        /\ \E i, j \in 1..Len(req[r].rows) :
             /\ i < j
             /\ req[r].rows[i].date = req[r].rows[j].date
             /\ req[r].rows[i].prcp # NULL
             /\ req[r].rows[j].prcp = NULL
             /\ req[r].resp[req[r].rows[j].date] = NULL

\* every request holds the session it opened itself, and no two requests hold
\* the same session
SessionsPrivate ==
    /\ \A r \in DOMAIN req :
         req[r].session # 0 =>
            req[r].session \in DOMAIN sessions /\ sessions[req[r].session].owner = r
    /\ \A r1, r2 \in DOMAIN req :
         (r1 # r2 /\ req[r1].session # 0) => req[r1].session # req[r2].session

\* a step that closes a session is a step of the request that opened it
ClosedByOwner ==
    \A s \in DOMAIN sessions :
        (sessions[s].open /\ ~sessions'[s].open) =>
            /\ sessions'[s].owner = sessions[s].owner
            /\ req'[sessions[s].owner] # req[sessions[s].owner]

\* C10: under every interleaving of the requests, each request uses only the
\* session it opened, and no step changes the station or measurement table.
C10_Isolation ==
    /\ []SessionsPrivate
    /\ [][ClosedByOwner /\ station' = station /\ measurement' = measurement]_vars

\* two requests are in flight at once, each with its own open session
C10_Witness ==
    \E r1, r2 \in DOMAIN req :
        /\ r1 # r2
        /\ req[r1].pc \in {"opened", "queried"} /\ req[r2].pc \in {"opened", "queried"}
        /\ sessions[req[r1].session].open /\ sessions[req[r2].session].open

====
